---- MODULE Spec2Model ----
(***************************************************************************)
(* A model of src/main.js: the two viewer scripts it holds.                *)
(*   script 1: lines   1-171 (lil-gui "Play Animation" checkbox)           *)
(*   script 2: lines 173-379 (DOM play button, inverted scroll gate)       *)
(* Each script is an ES module of its own (both declare the same top-level *)
(* names), so a run executes exactly one of them; `script` says which.     *)
(*                                                                         *)
(* JavaScript numbers are modelled as rationals <<n, d>> with d >= 0:      *)
(*   <<n, d>> with d > 0, reduced     the number n/d                       *)
(*   <<1, 0>>, <<-1, 0>>              +Infinity, -Infinity                 *)
(*   <<0, 0>>                         NaN                                  *)
(* The sign of zero is not kept (-0 === 0 in JavaScript).  Rotations are   *)
(* kept in units of maxRotation = Math.PI / 2.                             *)
(***************************************************************************)
EXTENDS Integers, Sequences, FiniteSets, TLC

\* ----------------------------------------------------------------- bounds
\* loadModel calls in one run, the initial loadModel('Phoenix') included
MaxLoads == 3
\* window.innerHeight ranges over 0..MaxInner
MaxInner == 1
\* document.body.scrollHeight of script 2 ranges over 0..MaxScrollHeight
MaxScrollHeight == 1
\* window.scrollY ranges over -1..MaxScrollY
MaxScrollY == 4
\* script 2's mixer.update stops advancing the mixer's time here
MaxTime == 1
\* durations of the clips an asset may hold
MainDuration == 4
OtherDuration == 2

\* document.body.style.height = "500vh"
BodyVh == 5

\* ------------------------------------------------------------ JS numbers
RECURSIVE GCD(_, _)
GCD(a, b) == IF b = 0 THEN a ELSE GCD(b, a % b)

Abs(x) == IF x < 0 THEN -x ELSE x
Sign(x) == IF x > 0 THEN 1 ELSE IF x < 0 THEN -1 ELSE 0

NaN == <<0, 0>>
Zero == <<0, 1>>
One == <<1, 1>>
Num(k) == <<k, 1>>
IsNaN(a) == a = NaN

\* n/d as a reduced rational, an infinity or NaN
Norm(n, d) ==
    IF d = 0 THEN <<Sign(n), 0>>
    ELSE LET g == GCD(Abs(n), Abs(d))
             s == Sign(d)
         IN  <<(s * n) \div g, (s * d) \div g>>

\* the JavaScript operator /
Div(a, b) == Norm(a, b)

Leq(a, b) == a[1] * b[2] <= b[1] * a[2]

\* Math.max and Math.min: NaN if either argument is NaN
MathMax(a, b) == IF IsNaN(a) \/ IsNaN(b) THEN NaN ELSE IF Leq(a, b) THEN b ELSE a
MathMin(a, b) == IF IsNaN(a) \/ IsNaN(b) THEN NaN ELSE IF Leq(a, b) THEN a ELSE b

\* f * k and f + k for an integer k; unary minus
Times(f, k) == IF IsNaN(f) THEN NaN ELSE Norm(f[1] * k, f[2])
Plus(f, k) == IF f[2] = 0 THEN f ELSE Norm(f[1] + k * f[2], f[2])
Neg(f) == <<-f[1], f[2]>>

\* ------------------------------------------------------------- the state
VARIABLES
    script,             \* which of the two scripts of main.js runs: 1 or 2
    loads,              \* the loader.load calls so far: <<[name, st, overlap]>>;
                        \* load i delivers the model root i (gltf.scene)
    scene,              \* the model roots attached to the scene
    currentModel,       \* a model root, 0 for undefined/null
    mixer,              \* [root, time], root 0 for undefined/null
    animationAction,    \* [root, clip, paused], root 0 for undefined/null
    targetMesh,         \* [root, rotX], root 0 for undefined/null
    isAnimationPlaying,
    animationSettings,  \* animationSettings.play (script 1)
    modelController,    \* modelController.model
    scaleFolder,        \* the controls registered in the Scale folder (script 1)
    scaleControl,       \* a control, 0 for undefined (script 1)
    playButton,         \* a button, 0 for null (script 2)
    buttons,            \* the play buttons in document.body (script 2)
    innerHeight,        \* window.innerHeight
    scrollHeight,       \* document.body.scrollHeight
    maxScroll,
    last,               \* the handler that ran last: [op, o, gate, threw]
    probe               \* inputs and results of scrollFraction (SpecFraction)

progVars ==
    <<script, loads, scene, currentModel, mixer, animationAction, targetMesh,
      isAnimationPlaying, animationSettings, modelController, scaleFolder,
      scaleControl, playButton, buttons, innerHeight, scrollHeight, maxScroll, last>>

vars == <<progVars, probe>>

\* -------------------------------------------------------------- the data
\* Object.keys(models) of script 1 and of script 2
models1 == {"Phoenix", "Box", "Cube", "Skeleton", "Lion"}
models2 == {"Phoenix", "Box"}

\* the entries a run selects from
Selectable == {"Phoenix", "Box"}

TargetMeshName == "Plane_Plane_002_Material_001_TOP_0"
PreferredClip == "CINEMA_4D_Main"

MainClip == [name |-> PreferredClip, duration |-> MainDuration]
OtherClip == [name |-> "Take 001", duration |-> OtherDuration]
NoClip == [name |-> "", duration |-> 0]

\* what a decoded asset may hold: whether a mesh named TargetMeshName is in
\* gltf.scene, and gltf.animations
Gltfs ==
    [hasTarget : BOOLEAN,
     animations : {<<>>, <<MainClip>>, <<OtherClip>>, <<OtherClip, MainClip>>}]

NoMixer == [root |-> 0, time |-> Zero]
NoAction == [root |-> 0, clip |-> NoClip, paused |-> FALSE]
NoMesh == [root |-> 0, rotX |-> Zero]

Offsets == -1 .. MaxScrollY

Did(op, o, threw) == [op |-> op, o |-> o, gate |-> isAnimationPlaying, threw |-> threw]

NoProbe == [o1 |-> 0, o2 |-> 0, e |-> 1, f1 |-> Zero, f2 |-> Zero, applied |-> FALSE]

InFlight == {i \in 1 .. Len(loads) : loads[i].st = "inflight"}

\* -------------------------------------------------------- pure functions
\* scrollFraction with the upper clamp forgotten: Math.max(scrollY / maxScroll, 0)
scrollFraction_NoUpperClamp(scrollY, extent) ==
    MathMax(Div(scrollY, extent), Zero)

\* Math.min(Math.max(window.scrollY / maxScroll, 0), 1)
scrollFraction(scrollY, extent) ==
    MathMin(MathMax(Div(scrollY, extent), Zero), One)

\* animationTime with the clip's duration left out: the fraction taken as seconds
animationTime_Unscaled(fraction, duration) == fraction

\* scrollFraction * animationAction.getClip().duration
animationTime(fraction, duration) == Times(fraction, duration)

\* -scrollFraction * maxRotation, in units of maxRotation
rotationX(fraction) == Neg(fraction)

\* gltf.animations[0]
firstClip(animations) == animations[1]

\* THREE.AnimationClip.findByName(animations, name), NoClip for null
findByName(animations, name) ==
    IF \E k \in 1 .. Len(animations) : animations[k].name = name
    THEN animations[CHOOSE k \in 1 .. Len(animations) :
                        /\ animations[k].name = name
                        /\ \A j \in 1 .. k - 1 : animations[j].name # name]
    ELSE NoClip

\* the clip script 2 selects
selectClip2(animations) ==
    IF findByName(animations, PreferredClip) # NoClip
    THEN findByName(animations, PreferredClip)
    ELSE firstClip(animations)

\* ----------------------------------------------------------------- Init
Init ==
    /\ script \in {1, 2}
    /\ innerHeight \in 0 .. MaxInner
    /\ scrollHeight \in IF script = 1 THEN {BodyVh * innerHeight}
                        ELSE 0 .. MaxScrollHeight
    /\ maxScroll = scrollHeight - innerHeight
    /\ loads = <<[name |-> "Phoenix", st |-> "inflight", overlap |-> FALSE]>>
    /\ scene = {}
    /\ currentModel = 0
    /\ mixer = NoMixer
    /\ animationAction = NoAction
    /\ targetMesh = NoMesh
    /\ isAnimationPlaying = FALSE
    /\ animationSettings = FALSE
    /\ modelController = "Phoenix"
    /\ scaleFolder = {}
    /\ scaleControl = 0
    /\ playButton = 0
    /\ buttons = {}
    /\ last = [op |-> "init", o |-> 0, gate |-> FALSE, threw |-> FALSE]
    /\ probe = NoProbe

\* ------------------------------------------------------------- script 1
\* The 'Play Animation' checkbox is toggled: lil-gui stores the new value in
\* animationSettings.play and calls onChange with it.  mixer.setTime on a null
\* mixer throws before the mesh is reset.
PlayOnChange ==
    /\ script = 1
    /\ LET value == ~animationSettings
           rewind == animationAction.root # 0 /\ ~value
           threw == rewind /\ mixer.root = 0
       IN  /\ animationSettings' = value
           /\ isAnimationPlaying' = value
           /\ animationAction' =
                  IF animationAction.root # 0
                  THEN [animationAction EXCEPT !.paused = ~value]
                  ELSE animationAction
           /\ mixer' = IF rewind /\ ~threw THEN [mixer EXCEPT !.time = Zero] ELSE mixer
           /\ targetMesh' =
                  IF rewind /\ ~threw /\ targetMesh.root # 0
                  THEN [targetMesh EXCEPT !.rotX = Zero]
                  ELSE targetMesh
           /\ last' = Did("play", 0, threw)
    /\ UNCHANGED <<script, loads, scene, currentModel, modelController, scaleFolder,
                   scaleControl, playButton, buttons, innerHeight, scrollHeight,
                   maxScroll, probe>>

\* loadModel1 with line 91 (animationAction = null) left out of the teardown
loadModel1_KeepsAction(modelName) ==
    /\ script = 1
    /\ Len(loads) < MaxLoads
    /\ modelName \in models1
    /\ modelName # modelController
    /\ modelController' = modelName
    /\ IF currentModel # 0
       THEN /\ scene' = scene \ {currentModel}
            /\ mixer' = NoMixer
            /\ targetMesh' = NoMesh
            /\ isAnimationPlaying' = FALSE
            /\ scaleFolder' = IF scaleControl # 0 THEN scaleFolder \ {scaleControl}
                              ELSE scaleFolder
       ELSE UNCHANGED <<scene, mixer, targetMesh, isAnimationPlaying, scaleFolder>>
    /\ loads' = Append(loads, [name |-> modelName, st |-> "inflight",
                               overlap |-> InFlight # {}])
    /\ last' = Did("loadModel", 0, FALSE)
    /\ UNCHANGED <<script, currentModel, animationAction, animationSettings,
                   scaleControl, playButton, buttons, innerHeight, scrollHeight,
                   maxScroll, probe>>

\* loadModel(modelName), called by the 'Model' dropdown when its value changes.
\* boxHelper is never assigned, so line 88 removes nothing.  scaleControl is
\* not reset after destroy(); destroy() is taken to remove the control from its
\* folder when it is there and to do nothing otherwise.
loadModel1(modelName) ==
    /\ script = 1
    /\ Len(loads) < MaxLoads
    /\ modelName \in models1
    /\ modelName # modelController
    /\ modelController' = modelName
    /\ IF currentModel # 0
       THEN /\ scene' = scene \ {currentModel}
            /\ mixer' = NoMixer
            /\ animationAction' = NoAction
            /\ targetMesh' = NoMesh
            /\ isAnimationPlaying' = FALSE
            /\ scaleFolder' = IF scaleControl # 0 THEN scaleFolder \ {scaleControl}
                              ELSE scaleFolder
       ELSE UNCHANGED <<scene, mixer, animationAction, targetMesh,
                        isAnimationPlaying, scaleFolder>>
    /\ loads' = Append(loads, [name |-> modelName, st |-> "inflight",
                               overlap |-> InFlight # {}])
    /\ last' = Did("loadModel", 0, FALSE)
    /\ UNCHANGED <<script, currentModel, animationSettings, scaleControl, playButton,
                   buttons, innerHeight, scrollHeight, maxScroll, probe>>

\* The load of loads[i] succeeds and its callback runs with gltf.
LoadDone1(i, gltf) ==
    /\ script = 1
    /\ i \in InFlight
    /\ loads' = [loads EXCEPT ![i].st = "done"]
    /\ scene' = scene \cup {i}
    /\ currentModel' = i
    /\ scaleControl' = i
    /\ scaleFolder' = scaleFolder \cup {i}
    /\ targetMesh' = IF gltf.hasTarget THEN [root |-> i, rotX |-> Zero] ELSE targetMesh
    /\ IF Len(gltf.animations) # 0
       THEN /\ mixer' = [root |-> i, time |-> Zero]
            /\ animationAction' = [root |-> i, clip |-> firstClip(gltf.animations),
                                   paused |-> TRUE]
       ELSE UNCHANGED <<mixer, animationAction>>
    /\ last' = Did("loadDone", 0, FALSE)
    /\ UNCHANGED <<script, isAnimationPlaying, animationSettings, modelController,
                   playButton, buttons, innerHeight, scrollHeight, maxScroll, probe>>

\* The load of loads[i] fails: loader.load was given no error callback.
LoadFail1(i) ==
    /\ script = 1
    /\ i \in InFlight
    /\ loads' = [loads EXCEPT ![i].st = "failed"]
    /\ last' = Did("loadFail", 0, FALSE)
    /\ UNCHANGED <<script, scene, currentModel, mixer, animationAction, targetMesh,
                   isAnimationPlaying, animationSettings, modelController, scaleFolder,
                   scaleControl, playButton, buttons, innerHeight, scrollHeight,
                   maxScroll, probe>>

\* Scroll1 with the isAnimationPlaying test left out of both branches
Scroll1_Ungated(o) ==
    /\ script = 1
    /\ mixer' =
           IF mixer.root # 0 /\ animationAction.root # 0
           THEN [mixer EXCEPT !.time = animationTime(scrollFraction(o, maxScroll),
                                                     animationAction.clip.duration)]
           ELSE mixer
    /\ targetMesh' =
           IF targetMesh.root # 0
           THEN [targetMesh EXCEPT !.rotX = rotationX(scrollFraction(o, maxScroll))]
           ELSE targetMesh
    /\ last' = Did("scroll", o, FALSE)
    /\ UNCHANGED <<script, loads, scene, currentModel, animationAction,
                   isAnimationPlaying, animationSettings, modelController, scaleFolder,
                   scaleControl, playButton, buttons, innerHeight, scrollHeight,
                   maxScroll, probe>>

\* A scroll event with window.scrollY = o.
Scroll1(o) ==
    /\ script = 1
    /\ mixer' =
           IF isAnimationPlaying /\ mixer.root # 0 /\ animationAction.root # 0
           THEN [mixer EXCEPT !.time = animationTime(scrollFraction(o, maxScroll),
                                                     animationAction.clip.duration)]
           ELSE mixer
    /\ targetMesh' =
           IF isAnimationPlaying /\ targetMesh.root # 0
           THEN [targetMesh EXCEPT !.rotX = rotationX(scrollFraction(o, maxScroll))]
           ELSE targetMesh
    /\ last' = Did("scroll", o, FALSE)
    /\ UNCHANGED <<script, loads, scene, currentModel, animationAction,
                   isAnimationPlaying, animationSettings, modelController, scaleFolder,
                   scaleControl, playButton, buttons, innerHeight, scrollHeight,
                   maxScroll, probe>>

\* One frame of animate().
Animate1 ==
    /\ script = 1
    /\ maxScroll' = scrollHeight - innerHeight
    /\ last' = Did("animate", 0, FALSE)
    /\ UNCHANGED <<script, loads, scene, currentModel, mixer, animationAction,
                   targetMesh, isAnimationPlaying, animationSettings, modelController,
                   scaleFolder, scaleControl, playButton, buttons, innerHeight,
                   scrollHeight, probe>>

\* The window is resized to the height h; the body is BodyVh viewports high.
Resize1(h) ==
    /\ script = 1
    /\ innerHeight' = h
    /\ scrollHeight' = BodyVh * h
    /\ maxScroll' = scrollHeight' - innerHeight'
    /\ last' = Did("resize", 0, FALSE)
    /\ UNCHANGED <<script, loads, scene, currentModel, mixer, animationAction,
                   targetMesh, isAnimationPlaying, animationSettings, modelController,
                   scaleFolder, scaleControl, playButton, buttons, probe>>

\* ------------------------------------------------------------- script 2
\* loadModel(value), called by the 'model' dropdown when its value changes.
loadModel2(modelName) ==
    /\ script = 2
    /\ Len(loads) < MaxLoads
    /\ modelName \in models2
    /\ modelName # modelController
    /\ modelController' = modelName
    /\ IF currentModel # 0
       THEN /\ scene' = scene \ {currentModel}
            /\ IF mixer.root # 0
               THEN mixer' = NoMixer /\ animationAction' = NoAction
               ELSE UNCHANGED <<mixer, animationAction>>
            /\ IF playButton # 0
               THEN buttons' = buttons \ {playButton} /\ playButton' = 0
               ELSE UNCHANGED <<buttons, playButton>>
            /\ targetMesh' = NoMesh
            /\ isAnimationPlaying' = FALSE
       ELSE UNCHANGED <<scene, mixer, animationAction, playButton, buttons,
                        targetMesh, isAnimationPlaying>>
    /\ loads' = Append(loads, [name |-> modelName, st |-> "inflight",
                               overlap |-> InFlight # {}])
    /\ last' = Did("loadModel", 0, FALSE)
    /\ UNCHANGED <<script, currentModel, animationSettings, scaleFolder, scaleControl,
                   innerHeight, scrollHeight, maxScroll, probe>>

\* The load of loads[i] succeeds and its success callback runs with gltf.
LoadDone2(i, gltf) ==
    /\ script = 2
    /\ i \in InFlight
    /\ loads' = [loads EXCEPT ![i].st = "done"]
    /\ scene' = scene \cup {i}
    /\ currentModel' = i
    /\ targetMesh' = IF gltf.hasTarget THEN [root |-> i, rotX |-> Zero] ELSE targetMesh
    /\ IF Len(gltf.animations) # 0
       THEN /\ mixer' = [root |-> i, time |-> Zero]
            /\ animationAction' = [root |-> i, clip |-> selectClip2(gltf.animations),
                                   paused |-> TRUE]
            /\ playButton' = i
            /\ buttons' = buttons \cup {i}
       ELSE UNCHANGED <<mixer, animationAction, playButton, buttons>>
    /\ last' = Did("loadDone", 0, FALSE)
    /\ UNCHANGED <<script, isAnimationPlaying, animationSettings, modelController,
                   scaleFolder, scaleControl, innerHeight, scrollHeight, maxScroll,
                   probe>>

\* The load of loads[i] fails and its error callback logs the error.
LoadFail2(i) ==
    /\ script = 2
    /\ i \in InFlight
    /\ loads' = [loads EXCEPT ![i].st = "failed"]
    /\ last' = Did("loadFail", 0, FALSE)
    /\ UNCHANGED <<script, scene, currentModel, mixer, animationAction, targetMesh,
                   isAnimationPlaying, animationSettings, modelController, scaleFolder,
                   scaleControl, playButton, buttons, innerHeight, scrollHeight,
                   maxScroll, probe>>

\* A click on the play button b of document.body.
PlayButtonClick(b) ==
    /\ script = 2
    /\ b \in buttons
    /\ IF animationAction.root # 0
       THEN /\ isAnimationPlaying' = ~isAnimationPlaying
            /\ animationAction' = [animationAction EXCEPT !.paused = isAnimationPlaying]
            /\ last' = Did("click", 0, playButton = 0)
       ELSE /\ UNCHANGED <<isAnimationPlaying, animationAction>>
            /\ last' = Did("click", 0, FALSE)
    /\ UNCHANGED <<script, loads, scene, currentModel, mixer, targetMesh,
                   animationSettings, modelController, scaleFolder, scaleControl,
                   playButton, buttons, innerHeight, scrollHeight, maxScroll, probe>>

\* A scroll event with window.scrollY = o.  maxRotation is declared nowhere in
\* script 2: reading it at line 353 throws a ReferenceError, so the handler ends
\* there whenever targetMesh is set and rotation.x is not assigned.
Scroll2(o) ==
    /\ script = 2
    /\ mixer' =
           IF mixer.root # 0 /\ animationAction.root # 0 /\ ~isAnimationPlaying
           THEN [mixer EXCEPT !.time = animationTime(scrollFraction(o, maxScroll),
                                                     animationAction.clip.duration)]
           ELSE mixer
    /\ last' = Did("scroll", o, targetMesh.root # 0)
    /\ UNCHANGED <<script, loads, scene, currentModel, animationAction, targetMesh,
                   isAnimationPlaying, animationSettings, modelController, scaleFolder,
                   scaleControl, playButton, buttons, innerHeight, scrollHeight,
                   maxScroll, probe>>

\* One frame of animate(): mixer.update(clock.getDelta()) adds the frame's delta
\* (one unit here) to the mixer's time.
Animate2 ==
    /\ script = 2
    /\ mixer.root # 0 => Leq(Plus(mixer.time, 1), Num(MaxTime))
    /\ mixer' = IF mixer.root # 0 THEN [mixer EXCEPT !.time = Plus(mixer.time, 1)]
                ELSE mixer
    /\ last' = Did("animate", 0, FALSE)
    /\ UNCHANGED <<script, loads, scene, currentModel, animationAction, targetMesh,
                   isAnimationPlaying, animationSettings, modelController, scaleFolder,
                   scaleControl, playButton, buttons, innerHeight, scrollHeight,
                   maxScroll, probe>>

\* The window is resized to the height h, the body then being sh high.
Resize2(h, sh) ==
    /\ script = 2
    /\ innerHeight' = h
    /\ scrollHeight' = sh
    /\ maxScroll' = scrollHeight' - innerHeight'
    /\ last' = Did("resize", 0, FALSE)
    /\ UNCHANGED <<script, loads, scene, currentModel, mixer, animationAction,
                   targetMesh, isAnimationPlaying, animationSettings, modelController,
                   scaleFolder, scaleControl, playButton, buttons, probe>>

\* The content height changes to sh with no resize of the window (script 2 sets
\* no body height; it appends the canvas and the play buttons to the body).
Layout2(sh) ==
    /\ script = 2
    /\ sh # scrollHeight
    /\ scrollHeight' = sh
    /\ last' = Did("layout", 0, FALSE)
    /\ UNCHANGED <<script, loads, scene, currentModel, mixer, animationAction,
                   targetMesh, isAnimationPlaying, animationSettings, modelController,
                   scaleFolder, scaleControl, playButton, buttons, innerHeight,
                   maxScroll, probe>>

\* ------------------------------------------------------- specifications
\* script 1 alone
Next1 ==
    \/ PlayOnChange
    \/ \E n \in Selectable : loadModel1(n)
    \/ \E i \in 1 .. MaxLoads, g \in Gltfs : LoadDone1(i, g)
    \/ \E i \in 1 .. MaxLoads : LoadFail1(i)
    \/ \E o \in Offsets : Scroll1(o)
    \/ Animate1
    \/ \E h \in 0 .. MaxInner : Resize1(h)

Init1 == Init /\ script = 1

Spec1 == Init1 /\ [][Next1]_vars

\* script 2 alone
Next2 ==
    \/ \E n \in Selectable : loadModel2(n)
    \/ \E i \in 1 .. MaxLoads, g \in Gltfs : LoadDone2(i, g)
    \/ \E i \in 1 .. MaxLoads : LoadFail2(i)
    \/ \E b \in 1 .. MaxLoads : PlayButtonClick(b)
    \/ \E o \in Offsets : Scroll2(o)
    \/ Animate2
    \/ \E h \in 0 .. MaxInner, sh \in 0 .. MaxScrollHeight : Resize2(h, sh)
    \/ \E sh \in 0 .. MaxScrollHeight : Layout2(sh)

Init2 == Init /\ script = 2

Spec2 == Init2 /\ [][Next2]_vars

\* either script
Next == Next1 \/ Next2

Spec == Init /\ [][Next]_vars

\* scrollFraction applied to drawn inputs: two offsets and one extent
ProbeExtents == -1 .. MaxScrollY

ProbePick(o1, o2, e) ==
    /\ probe' = [o1 |-> o1, o2 |-> o2, e |-> e, f1 |-> Zero, f2 |-> Zero,
                 applied |-> FALSE]
    /\ UNCHANGED progVars

ProbeApply ==
    /\ ~probe.applied
    /\ probe' = [probe EXCEPT !.f1 = scrollFraction(probe.o1, probe.e),
                              !.f2 = scrollFraction(probe.o2, probe.e),
                              !.applied = TRUE]
    /\ UNCHANGED progVars

InitFraction == Init /\ script = 1 /\ innerHeight = 0

NextFraction ==
    \/ \E o1 \in Offsets, o2 \in Offsets, e \in ProbeExtents : ProbePick(o1, o2, e)
    \/ ProbeApply

SpecFraction == InitFraction /\ [][NextFraction]_vars

\* ================================================================ claims
\* C1: in every reachable state at most one loaded model root is attached to
\* the scene, whatever the order of loadModel calls and load completions.
C1_AtMostOneAttached == Cardinality(scene) <= 1

\* C2: loadModel('Box') is called while the load of loadModel('Phoenix') is in
\* flight; once both loads have completed exactly one model root is attached.
C2_SwitchWhileInFlight ==
    ( /\ Len(loads) = 2
      /\ loads[1].name = "Phoenix" /\ loads[1].st = "done"
      /\ loads[2].name = "Box" /\ loads[2].st = "done"
      /\ loads[2].overlap )
    => Cardinality(scene) = 1

\* C3: right after every loadModel call and every load completion the playback
\* state is reset: isAnimationPlaying is false and the animation time is 0.
C3_ResetOnAssetChange ==
    last.op \in {"loadModel", "loadDone"}
    => /\ ~isAnimationPlaying
       /\ mixer.root # 0 => mixer.time = Zero

\* C4: with maxScroll <= 0 the scroll handler's fraction is 0 at every offset,
\* so the time it sets is 0 * duration = 0 and the rotation it sets is 0;
\* never NaN and never the value of a division by zero.
C4_ZeroExtentFractionZero ==
    (last.op = "scroll" /\ maxScroll <= 0 /\ isAnimationPlaying)
    => /\ (mixer.root # 0 /\ animationAction.root # 0) => mixer.time = Zero
       /\ targetMesh.root # 0 => targetMesh.rotX = Zero

\* C5: for every offset and every extent e > 0 the scroll fraction is a number
\* of [0, 1], and for a fixed e it does not decrease when the offset grows.
C5_FractionBoundedMonotone ==
    (probe.applied /\ probe.e > 0)
    => /\ probe.f1[2] > 0
       /\ Leq(Zero, probe.f1) /\ Leq(probe.f1, One)
       /\ probe.o1 <= probe.o2 => Leq(probe.f1, probe.f2)

\* C5's case: a negative offset and one beyond the extent, clamped to 0 and 1
C5_Witness ==
    /\ probe.applied /\ probe.e > 0
    /\ probe.o1 < 0 /\ probe.o2 > probe.e
    /\ probe.f1 = Zero /\ probe.f2 = One

\* C6: when the Play control goes from true to false the animation time and
\* the target mesh's X rotation are 0 afterwards, whatever the asset holds
\* (stated where the extent is positive, the fractions being those of C5).
C6_PlayOffRewinds ==
    (last.op = "play" /\ last.gate /\ ~animationSettings /\ maxScroll > 0)
    => /\ mixer.root # 0 => mixer.time = Zero
       /\ targetMesh.root # 0 => targetMesh.rotX = Zero

C8_ScrollSetsAnimationTime ==
    (last.op = "scroll" /\ isAnimationPlaying /\ mixer.root # 0
        /\ animationAction.root # 0)
    => LET d == animationAction.clip.duration
           o == last.o
           e == maxScroll
           t == mixer.time
       IN  /\ t = Times(scrollFraction(o, e), d)
           /\ (e > 0 /\ o <= 0) => t = Zero
           /\ (e > 0 /\ o >= e) => t = Num(d)
           /\ (e > 0 /\ 0 <= o /\ o <= e) => (t[2] > 0 /\ t[1] * e = o * d * t[2])

\* C8's case: half of the extent scrolled with the gate open, half the clip set
C8_Witness ==
    /\ script = 1 /\ last.op = "scroll" /\ isAnimationPlaying
    /\ mixer.root # 0 /\ animationAction.clip = MainClip
    /\ maxScroll > 0 /\ 2 * last.o = maxScroll
    /\ mixer.time = Norm(MainDuration, 2)

\* C9: a scroll event that arrives while isAnimationPlaying is true raises no
\* error and, when a target mesh is present, sets its X rotation to
\* -fraction * maxRotation (stated where the extent is positive).
C9_ScrollSetsRotation ==
    (last.op = "scroll" /\ isAnimationPlaying /\ maxScroll > 0)
    => /\ ~last.threw
       /\ targetMesh.root # 0
            => targetMesh.rotX = Neg(scrollFraction(last.o, maxScroll))

\* C10: with no animation clip loaded the gate has no observable effect.  In
\* script 1 a run that never enables the gate never sets an animation time and
\* leaves every rotation at 0 (line 149 runs under the gate, line 74 writes 0),
\* so the claim is: without a clip there is no mixer and the rotation is 0
\* (stated where the extent is positive).
C10_GateInertWithoutClip ==
    (currentModel # 0 /\ animationAction.root = 0 /\ maxScroll > 0)
    => (mixer.root = 0 /\ targetMesh.rotX = Zero)

\* C11: once a model with no animation clips is the loaded model (currentModel
\* is attached and animationAction is not its action), enabling Play and
\* delivering scroll events raises no error and leaves the animation time as
\* it was (stated where the extent is positive, for the enabling toggle and
\* the scroll event that follows it).
C11_NoClipPlayScrollInert ==
    [][( /\ currentModel \in scene
         /\ animationAction.root # currentModel
         /\ maxScroll > 0
         /\ \/ last'.op = "scroll" /\ last.op = "play" /\ animationSettings
            \/ last'.op = "play" /\ animationSettings' )
       => (~last'.threw /\ mixer'.time = mixer.time)]_vars

\* C11 where no load was issued while another was in flight: the same holds
\* for every enabling toggle and every scroll event
C11_NoClipPlayScrollInertSerial ==
    [][( /\ currentModel \in scene
         /\ animationAction.root # currentModel
         /\ \A i \in 1 .. Len(loads) : ~loads[i].overlap
         /\ \/ last'.op = "scroll"
            \/ last'.op = "play" /\ animationSettings' )
       => (~last'.threw /\ mixer'.time = mixer.time)]_vars

\* C12: right after a loadModel call made while currentModel is set, with the
\* new load in flight, that root is detached from the scene, mixer,
\* animationAction and targetMesh are null, isAnimationPlaying is false and the
\* per-asset control (scaleControl in script 1, playButton in script 2) is
\* released.
C12_TeardownBeforeLoad ==
    (last.op = "loadModel" /\ currentModel # 0)
    => /\ Len(loads) \in InFlight
       /\ currentModel \notin scene
       /\ mixer = NoMixer
       /\ animationAction = NoAction
       /\ targetMesh = NoMesh
       /\ ~isAnimationPlaying
       /\ script = 1 => scaleControl \notin scaleFolder
       /\ script = 2 => (playButton = 0 /\ currentModel \notin buttons)

\* C12's case: a loadModel call tore down a playing model and its load is in
\* flight
C12_Witness ==
    /\ last.op = "loadModel" /\ currentModel # 0 /\ last.gate
    /\ currentModel \notin scene /\ mixer.root = 0
    /\ Len(loads) \in InFlight
    /\ script = 1 /\ scaleControl # 0 /\ scaleControl \notin scaleFolder

\* C13: right after a load fails no model root is attached and mixer,
\* animationAction and targetMesh are null.
C13_FailLeavesTornDown ==
    last.op = "loadFail"
    => /\ scene = {}
       /\ mixer = NoMixer
       /\ animationAction = NoAction
       /\ targetMesh = NoMesh

\* C13 where no load was issued while another was in flight: the same holds,
\* and no load is in flight after the failure
C13_FailLeavesTornDownSerial ==
    (last.op = "loadFail" /\ \A i \in 1 .. Len(loads) : ~loads[i].overlap)
    => /\ scene = {}
       /\ mixer = NoMixer
       /\ animationAction = NoAction
       /\ targetMesh = NoMesh
       /\ InFlight = {}

\* the clip C14 expects for gltf.animations: the one named PreferredClip when
\* the list holds one, else the first
C14_Expected(animations) ==
    IF \E k \in 1 .. Len(animations) : animations[k].name = PreferredClip
    THEN MainClip
    ELSE animations[1]

\* C14: every successful load binds animationAction to the clip named
\* PreferredClip when gltf.animations holds one, else to the first clip, and
\* leaves mixer and animationAction as they were when the list is empty.
C14_PreferredClipBound ==
    [][\A i \in 1 .. MaxLoads, g \in Gltfs :
          (LoadDone1(i, g) \/ LoadDone2(i, g))
          => IF Len(g.animations) = 0
             THEN mixer' = mixer /\ animationAction' = animationAction
             ELSE /\ mixer'.root = i /\ animationAction'.root = i
                  /\ animationAction'.clip = C14_Expected(g.animations)]_vars

\* C15: every scroll event computes its fraction from the extent of the
\* moment: maxScroll = document.body.scrollHeight - window.innerHeight.
C15_ScrollUsesCurrentExtent ==
    last.op = "scroll" => maxScroll = scrollHeight - innerHeight

\* C16: once every load issued has completed, currentModel is the model of
\* the request made last, the one the Model selector shows.
C16_CurrentIsLastRequested ==
    (\A i \in 1 .. Len(loads) : loads[i].st = "done")
    => /\ currentModel = Len(loads)
       /\ loads[currentModel].name = modelController

\* C17: a non-null targetMesh belongs to currentModel, and a non-null mixer
\* and animationAction drive currentModel.
C17_RefsBelongToCurrent ==
    /\ targetMesh.root # 0 => targetMesh.root = currentModel
    /\ mixer.root # 0 => mixer.root = currentModel
    /\ animationAction.root # 0 => animationAction.root = currentModel

\* C18: mixer is non-null exactly when animationAction is non-null, both for
\* the same model, and the Play handler never calls setTime on a null mixer.
C18_MixerIffAction ==
    /\ mixer.root = animationAction.root
    /\ last.op = "play" => ~last.threw

\* C18's case: Play went from true to false with a clip loaded, so
\* mixer.setTime(0) ran
C18_Witness ==
    /\ script = 1 /\ last.op = "play" /\ last.gate /\ ~animationSettings
    /\ animationAction.root # 0 /\ mixer.root # 0 /\ ~last.threw

\* C19: the 'Play Animation' control shows isAnimationPlaying.
C19_ControlShowsGate ==
    script = 1 => animationSettings = isAnimationPlaying

\* C20: at most one 'Uniform Scale' control is registered in the Scale folder,
\* and it is the one scaleControl refers to.
C20_OneScaleControl ==
    /\ Cardinality(scaleFolder) <= 1
    /\ scaleFolder \subseteq {scaleControl}

\* C16, C17 and C20 where no load was issued while another was in flight
NoOverlap == \A i \in 1 .. Len(loads) : ~loads[i].overlap

C16_CurrentIsLastRequestedSerial ==
    (NoOverlap /\ \A i \in 1 .. Len(loads) : loads[i].st = "done")
    => /\ currentModel = Len(loads)
       /\ loads[currentModel].name = modelController

C17_RefsBelongToCurrentSerial ==
    NoOverlap
    => /\ targetMesh.root # 0 => targetMesh.root = currentModel
       /\ mixer.root # 0 => mixer.root = currentModel
       /\ animationAction.root # 0 => animationAction.root = currentModel

C20_OneScaleControlSerial ==
    NoOverlap
    => /\ Cardinality(scaleFolder) <= 1
       /\ scaleFolder \subseteq {scaleControl}

====
